---- MODULE Spec2Model ----
(***************************************************************************)
(* Model of Gui.py: the VideoDownloaderApp window (UI thread, one Qt event *)
(* loop), its DownloadThread and VideoInfoThread workers, and the queued   *)
(* signal connections that carry the workers' events to the UI thread.     *)
(***************************************************************************)
EXTENDS Integers, Sequences, FiniteSets, TLC

VARIABLES
    url_text,         \* url_input.text()
    current_url,      \* self.current_url
    selected_path,    \* self.selected_path
    fs,               \* directories that exist (os.path.exists)
    download_button,  \* download_button.isVisible()
    cancel_button,    \* cancel_button.isVisible()
    progress_bar,     \* progress_bar.isVisible()
    progress_value,   \* progress_bar.value()
    status_label,     \* status_label.text()
    fetch_info_btn,   \* fetch_info_btn.isEnabled()
    timer_active,     \* thumbnail_timer.isActive()
    timer_left,       \* time left until thumbnail_timer is due, in ticks
    idle,             \* history: ticks since url_input's text last changed
    video_info,       \* self.video_info
    duration_label,   \* duration_label.text(), after 'Duration: '
    download_thread,  \* self.download_thread (0 is None)
    info_thread,      \* self.info_thread (0 is None)
    dl,               \* the DownloadThread objects created so far
    dl_created,       \* how many DownloadThread objects were created
    inf,              \* the VideoInfoThread objects created so far
    inf_created,      \* how many VideoInfoThread objects were created
    uiq,              \* events posted to the UI thread's event loop, FIFO
    modal,            \* open QMessageBox dialogs, innermost first
    produced,         \* history: per download thread, the signals it emitted
    delivered,        \* history: per download thread, the events the UI got
    info_delivered    \* history: per info thread, the events the UI got

vars == <<url_text, current_url, selected_path, fs, download_button,
          cancel_button, progress_bar, progress_value, status_label,
          fetch_info_btn, timer_active, timer_left, idle, video_info,
          duration_label, download_thread, info_thread, dl, dl_created, inf, inf_created, uiq, modal,
          produced, delivered, info_delivered>>

\* What the download-related widgets and the thread reference show.
download_state == <<download_button, cancel_button, progress_bar,
                    progress_value, status_label, download_thread>>

(***************************************************************************)
(* Bounds of the model.                                                    *)
(***************************************************************************)
MaxDl == 2        \* DownloadThread objects created in one run
MaxInfo == 2      \* VideoInfoThread objects created in one run
MaxHooks == 2     \* progress-hook callbacks the resolver makes per download

DlIds == 1..MaxDl
InfoIds == 1..MaxInfo

(***************************************************************************)
(* IEEE-754 binary64 arithmetic, as far as hook() uses it: Python's        *)
(* downloaded_bytes / total_bytes is a correctly rounded float division,   *)
(* (...) * 100 a correctly rounded float multiplication, and int() drops   *)
(* the fraction.  A positive float is [bits, exp]: bits is the 53-bit      *)
(* significand, most significant bit first, and its value is               *)
(* bits * 2^exp.  Divisors stay below 2^15 so that every intermediate      *)
(* product fits a 32-bit integer.                                         *)
(***************************************************************************)
MantBits == 53
LimbBits == 8

RECURSIVE IntBits(_)
\* The binary digits of n > 0, most significant first; <<>> for 0.
IntBits(n) == IF n = 0 THEN <<>> ELSE Append(IntBits(n \div 2), n % 2)

RECURSIVE BitsToInt(_)
BitsToInt(b) ==
    IF b = <<>> THEN 0
    ELSE 2 * BitsToInt(SubSeq(b, 1, Len(b) - 1)) + b[Len(b)]

RECURSIVE Pow2(_)
Pow2(n) == IF n = 0 THEN 1 ELSE 2 * Pow2(n - 1)

\* b without its leading zeros.
StripZeros(b) ==
    IF \A i \in 1..Len(b) : b[i] = 0 THEN <<>>
    ELSE LET k == CHOOSE i \in 1..Len(b) :
                      b[i] = 1 /\ \A j \in 1..(i - 1) : b[j] = 0
         IN  SubSeq(b, k, Len(b))

\* b + 1 on a bit string; a carry out of the top lengthens the string.
Increment(b) ==
    IF \A i \in 1..Len(b) : b[i] = 1
    THEN <<1>> \o [i \in 1..Len(b) |-> 0]
    ELSE LET k == CHOOSE i \in 1..Len(b) :
                      b[i] = 0 /\ \A j \in (i + 1)..Len(b) : b[j] = 1
         IN  [i \in 1..Len(b) |-> IF i < k THEN b[i] ELSE IF i = k THEN 1 ELSE 0]

\* Round the exact value x.bits * 2^x.exp (sticky: a nonzero part lies below
\* the last bit) to 53 significant bits, to nearest, ties to even.
RoundToDouble(x, sticky) ==
    LET n == Len(x.bits)
    IN  IF n <= MantBits
        THEN [bits |-> x.bits \o [i \in 1..(MantBits - n) |-> 0],
              exp |-> x.exp - (MantBits - n)]
        ELSE LET keep == SubSeq(x.bits, 1, MantBits)
                 rest == SubSeq(x.bits, MantBits + 1, n)
                 guard == rest[1]
                 below == sticky \/ \E i \in 2..Len(rest) : rest[i] = 1
                 up == guard = 1 /\ (below \/ keep[MantBits] = 1)
                 r == IF up THEN Increment(keep) ELSE keep
             IN  IF Len(r) > MantBits
                 THEN [bits |-> SubSeq(r, 1, MantBits),
                       exp |-> x.exp + (n - MantBits) + 1]
                 ELSE [bits |-> r, exp |-> x.exp + (n - MantBits)]

RECURSIVE Pow2Mod(_, _)
\* 2^i mod b, by repeated squaring.
Pow2Mod(i, b) ==
    IF i = 0 THEN 1 % b
    ELSE LET h == Pow2Mod(i \div 2, b)
             sq == (h * h) % b
         IN  IF i % 2 = 1 THEN (2 * sq) % b ELSE sq

\* What is left of a / b below its first i binary places, times b * 2^i.
RemAt(a, b, i) == ((a % b) * Pow2Mod(i, b)) % b

\* The i-th binary place (i >= 1) of a / b.
BitAt(a, b, i) == (2 * RemAt(a, b, i - 1)) \div b

\* The float a / b for integers a > 0, 0 < b < 2^15 (both exact as floats).
FloatDiv(a, b) ==
    LET q == IntBits(a \div b)
        first == IF q # <<>> THEN 1
                 ELSE CHOOSE i \in 1..16 :
                          BitAt(a, b, i) = 1 /\ \A j \in 1..(i - 1) : BitAt(a, b, j) = 0
        places == (first - 1) + (MantBits + 1 - Len(q))
        frac == [j \in 1..(places - first + 1) |-> BitAt(a, b, first - 1 + j)]
    IN  RoundToDouble([bits |-> q \o frac, exp |-> 0 - places],
                      RemAt(a, b, places) # 0)

RECURSIVE MulLimbs(_, _, _)
\* limbs * c, limbs in base 2^LimbBits, most significant first.
MulLimbs(limbs, c, carry) ==
    IF limbs = <<>> THEN [limbs |-> <<>>, carry |-> carry]
    ELSE LET v == limbs[Len(limbs)] * c + carry
             hi == MulLimbs(SubSeq(limbs, 1, Len(limbs) - 1), c, v \div Pow2(LimbBits))
         IN  [limbs |-> Append(hi.limbs, v % Pow2(LimbBits)), carry |-> hi.carry]

\* The exact product bits * c for a small integer c > 0.
MulBits(bits, c) ==
    LET nl == (Len(bits) + LimbBits - 1) \div LimbBits
        pad == nl * LimbBits - Len(bits)
        padded == [i \in 1..pad |-> 0] \o bits
        limbs == [k \in 1..nl |->
                     BitsToInt(SubSeq(padded, (k - 1) * LimbBits + 1, k * LimbBits))]
        p == MulLimbs(limbs, c, 0)
        low == [i \in 1..(nl * LimbBits) |->
                   (p.limbs[((i - 1) \div LimbBits) + 1]
                        \div Pow2(LimbBits - 1 - ((i - 1) % LimbBits))) % 2]
    IN  StripZeros(IntBits(p.carry) \o low)

\* The float x * c for a float x > 0 and a small integer c > 0.
FloatMulInt(x, c) ==
    RoundToDouble([bits |-> MulBits(x.bits, c), exp |-> x.exp], FALSE)

\* int(x) for a float x > 0 below 2^31: the digits above the binary point.
FloatTrunc(x) ==
    IF MantBits + x.exp <= 0 THEN 0
    ELSE BitsToInt(SubSeq(x.bits, 1, MantBits + x.exp))

\* int((downloaded_bytes / total_bytes) * 100) for total_bytes > 0.
PercentOfBytes(downloaded_bytes, total_bytes) ==
    IF downloaded_bytes = 0 THEN 0
    ELSE IF downloaded_bytes > 0
         THEN FloatTrunc(FloatMulInt(FloatDiv(downloaded_bytes, total_bytes), 100))
         ELSE 0 - FloatTrunc(FloatMulInt(FloatDiv(0 - downloaded_bytes, total_bytes), 100))

(***************************************************************************)
(* Text.  A string is a sequence of characters.                            *)
(***************************************************************************)
None == "None"

RECURSIVE LStrip(_)
LStrip(s) == IF s # <<>> /\ Head(s) = " " THEN LStrip(Tail(s)) ELSE s

RECURSIVE RStrip(_)
RStrip(s) ==
    IF s # <<>> /\ s[Len(s)] = " " THEN RStrip(SubSeq(s, 1, Len(s) - 1)) ELSE s

\* a strip() that leaves the text as it is
StripNothing(s) == s

\* str.strip()
Strip(s) == RStrip(LStrip(s))

\* str.replace(c, '')
RECURSIVE Remove(_, _)
Remove(s, c) ==
    IF s = <<>> THEN <<>>
    ELSE IF Head(s) = c THEN Remove(Tail(s), c)
    ELSE <<Head(s)>> \o Remove(Tail(s), c)

Digits == <<"0", "1", "2", "3", "4", "5", "6", "7", "8", "9">>
IsDigit(c) == \E i \in 1..10 : Digits[i] = c
DigitValue(c) == (CHOOSE i \in 1..10 : Digits[i] = c) - 1

RECURSIVE DecimalValue(_)
DecimalValue(s) ==
    IF s = <<>> THEN 0
    ELSE 10 * DecimalValue(SubSeq(s, 1, Len(s) - 1)) + DigitValue(s[Len(s)])

\* float(s) for the notations [+-]digits[.digits], [+-].digits, [+-]inf,
\* [+-]infinity and [+-]nan in lower case, around which float() allows
\* blanks: ok is FALSE when float(s) raises ValueError; whole is the part of
\* a finite value before the point (at most 9 digits), with its sign.
FloatOfStr(s) ==
    LET t == Strip(s)
        neg == t # <<>> /\ Head(t) = "-"
        u == IF t # <<>> /\ Head(t) \in {"-", "+"} THEN Tail(t) ELSE t
        infinite == u \in {<<"i", "n", "f">>, <<"i", "n", "f", "i", "n", "i", "t", "y">>}
        nan == u = <<"n", "a", "n">>
        dots == {i \in 1..Len(u) : u[i] = "."}
        whole == IF dots = {} THEN u
                 ELSE SubSeq(u, 1, (CHOOSE i \in dots : TRUE) - 1)
        decimal == /\ Cardinality(dots) <= 1
                   /\ \A i \in 1..Len(u) : IsDigit(u[i]) \/ u[i] = "."
                   /\ \E i \in 1..Len(u) : IsDigit(u[i])
    IN  [ok |-> decimal \/ infinite \/ nan,
         infinite |-> infinite,
         nan |-> nan,
         whole |-> IF ~decimal THEN 0
                   ELSE IF neg THEN 0 - DecimalValue(whole)
                   ELSE DecimalValue(whole)]

\* int(float(s)): float() raises ValueError for a text that is no number,
\* int() raises ValueError for nan and OverflowError for an infinity.
IntOfFloatStr(s) ==
    LET f == FloatOfStr(s)
    IN  [raises |-> IF ~f.ok \/ f.nan THEN "ValueError"
                    ELSE IF f.infinite THEN "OverflowError"
                    ELSE None,
         value |-> f.whole]

(***************************************************************************)
(* DownloadThread.run: the progress hook.                                  *)
(* A callback argument d is a record: status; total_bytes (0 when the key  *)
(* is absent or falsy); downloaded_bytes; percent_str, speed, eta (<<>>    *)
(* when absent or None, else <<value>>); file_exists ('filename' in d and  *)
(* os.path.exists of it).                                                  *)
(***************************************************************************)
\* try: percent = int(float(percent_str)) with no except clause: every
\* error leaves the hook
HookPercentStrUncaught(pstr) ==
    LET v == IntOfFloatStr(Remove(Strip(pstr), "%"))
    IN  [raises |-> v.raises, n |-> IF v.raises = None THEN v.value ELSE 0]

\* percent from '_percent_str': the ValueError is caught and gives 0, any
\* other error leaves the hook
HookPercentStr(pstr) ==
    LET v == IntOfFloatStr(Remove(Strip(pstr), "%"))
    IN  [raises |-> IF v.raises = "ValueError" THEN None ELSE v.raises,
         n |-> IF v.raises = None THEN v.value ELSE 0]

\* the error hook(d) raises while it computes percent, or None
HookRaises(d) ==
    IF d.status = "downloading" /\ d.total_bytes = 0 /\ d.percent_str # <<>>
    THEN HookPercentStr(d.percent_str[1]).raises
    ELSE None

\* percent, as hook() computes it for a 'downloading' callback
HookPercent(d) ==
    IF d.total_bytes # 0
    THEN IF d.total_bytes > 0
         THEN PercentOfBytes(d.downloaded_bytes, d.total_bytes)
         ELSE 0
    ELSE IF d.percent_str # <<>>
         THEN HookPercentStr(d.percent_str[1]).n
         ELSE 0

KB == 1024
\* the unit hook() picks for a speed in bytes per second
SpeedUnit(speed) ==
    IF speed > KB * KB THEN "MB/s"
    ELSE IF speed > KB THEN "KB/s"
    ELSE "B/s"

\* What a signal carries or a label shows: a number (progress), a text, the
\* unit of a speed, an ETA as <<minutes, seconds>>, an error as
\* <<prefix, message>>.
Payload(n, text) == [n |-> n, text |-> text, speed |-> <<>>, eta |-> <<>>, msg |-> <<>>]
Label(text) == Payload(0, text)

\* status_text of a 'downloading' callback
HookStatusText(d) ==
    [Label("Downloading...") EXCEPT
        !.speed = IF d.speed # <<>> THEN <<SpeedUnit(d.speed[1])>> ELSE <<>>,
        !.eta = IF d.eta # <<>> THEN <<d.eta[1] \div 60, d.eta[1] % 60>> ELSE <<>>]

Signal(sig, arg) == [sig |-> sig, arg |-> arg]

\* a hook whose 'finished' branch leaves the progress value as it was
HookEmitsNoHundred(d) ==
    IF d.status = "downloading"
    THEN << Signal("progress_signal", Payload(HookPercent(d), "")),
            Signal("status_signal", HookStatusText(d)),
            Signal("log_signal", Payload(HookPercent(d), "Progress")) >>
    ELSE IF d.status = "finished"
    THEN << Signal("status_signal", Label("Download completed!")) >>
    ELSE << >>

\* the signals one hook(d) call emits, in order
HookEmits(d) ==
    IF d.status = "downloading"
    THEN << Signal("progress_signal", Payload(HookPercent(d), "")),
            Signal("status_signal", HookStatusText(d)),
            Signal("log_signal", Payload(HookPercent(d), "Progress")) >>
    ELSE IF d.status = "finished"
    THEN << Signal("progress_signal", Payload(100, "")),
            Signal("status_signal", Label("Download completed!")) >>
         \o (IF d.file_exists
             THEN << Signal("finished_signal", Label("filename")),
                     Signal("log_signal", Label("Download completed: filename")) >>
             ELSE << >>)
    ELSE << >>

Callback(status, total, downloaded, pstr, exists) ==
    [status |-> status, total_bytes |-> total, downloaded_bytes |-> downloaded,
     percent_str |-> pstr, speed |-> <<>>, eta |-> <<>>, file_exists |-> exists]
NoCallback == Callback("none", 0, 0, <<>>, FALSE)

\* the callbacks the resolver makes in the model of the application
HookInputs ==
    { Callback("downloading", 50, 29, <<>>, FALSE),
      Callback("finished", 0, 0, <<>>, TRUE),
      Callback("finished", 0, 0, <<>>, FALSE) }

\* the errors the resolver raises: yt_dlp.utils.DownloadError, or another
ResolverErrors == {"DownloadError", "Exception"}

\* info['duration'] of the dict extract_info returns, in seconds
MaxDuration == 3700
Durations == 0..MaxDuration

(***************************************************************************)
(* The window after VideoDownloaderApp.__init__.                           *)
(***************************************************************************)
Chars == {" ", "a", "b"}
\* what the user may type into url_input
Texts == { <<>>, <<" ">>, <<"a">>, <<"b">> }
HomeDownloads == "~/Downloads"
Paths == {HomeDownloads, "/tmp"}

\* self.video_info: {} or the dict of a fetch; duration 0 stands for a dict
\* without 'duration' (or with a falsy one)
EmptyInfo == [fetched |-> FALSE, url |-> <<>>, duration |-> 0]

\* thumbnail_timer.start(1000), in ticks of the model's clock
Delay == 2

\* the text of duration_label, after 'Duration: '
Unknown == <<"Unknown">>

RECURSIVE DecimalDigits(_)
\* str(n) for n >= 0
DecimalDigits(n) ==
    IF n < 10 THEN <<Digits[n + 1]>>
    ELSE Append(DecimalDigits(n \div 10), Digits[(n % 10) + 1])

\* f"{n}" without padding
FormatPlain(n) == DecimalDigits(n)

\* f"{n:02d}" for n >= 0
Format02d(n) ==
    IF n < 10 THEN <<"0">> \o DecimalDigits(n) ELSE DecimalDigits(n)

\* duration_str of on_info_received, for a whole number of seconds > 0
DurationStr(duration) ==
    LET seconds == duration % 60
        total_minutes == duration \div 60
        hours == total_minutes \div 60
        minutes == total_minutes % 60
    IN  IF hours # 0
        THEN Format02d(hours) \o <<":">> \o Format02d(minutes) \o <<":">> \o Format02d(seconds)
        ELSE Format02d(minutes) \o <<":">> \o Format02d(seconds)
NoThread == [st |-> "none", pc |-> "none", is_cancelled |-> FALSE,
             terminating |-> FALSE, hooks |-> 0, cur |-> NoCallback, err |-> None]
NoInfoThread == [st |-> "none", url |-> <<>>, err |-> None]

\* os.path.exists(path)
PathExists(path) == path \in fs

Init ==
    /\ url_text = <<>>
    /\ current_url = <<>>
    /\ selected_path = HomeDownloads
    /\ fs \in SUBSET Paths
    /\ download_button = TRUE
    /\ cancel_button = FALSE
    /\ progress_bar = FALSE
    /\ progress_value = 0
    /\ status_label = Label("Status: Ready")
    /\ fetch_info_btn = TRUE
    /\ timer_active = FALSE
    /\ timer_left = 0
    /\ idle = Delay
    /\ video_info = EmptyInfo
    /\ duration_label = Unknown
    /\ download_thread = 0
    /\ info_thread = 0
    /\ dl = [t \in DlIds |-> NoThread]
    /\ dl_created = 0
    /\ inf = [t \in InfoIds |-> NoInfoThread]
    /\ inf_created = 0
    /\ uiq = <<>>
    /\ modal = <<>>
    /\ produced = [t \in DlIds |-> <<>>]
    /\ delivered = [t \in DlIds |-> <<>>]
    /\ info_delivered = [t \in InfoIds |-> <<>>]

\* QThread.isRunning()
isRunning(t) == dl[t].st = "running"
infoRunning(t) == inf[t].st = "running"

ui_vars == <<url_text, current_url, selected_path, download_button,
             cancel_button, progress_bar, progress_value, status_label,
             fetch_info_btn, timer_active, timer_left, idle, video_info,
             duration_label, download_thread, info_thread, modal>>

(***************************************************************************)
(* VideoDownloaderApp: the slots, each run to completion on the UI thread. *)
(***************************************************************************)
reset_video_info ==
    /\ duration_label' = Unknown
    /\ video_info' = EmptyInfo

\* an on_url_changed that starts the timer only when it is not running
on_url_changed_no_restart(url) ==
    IF url # current_url
    THEN /\ current_url' = url
         /\ reset_video_info
         /\ IF Strip(url) # <<>> /\ ~timer_active
            THEN timer_active' = TRUE /\ timer_left' = Delay
            ELSE UNCHANGED <<timer_active, timer_left>>
    ELSE UNCHANGED <<current_url, video_info, duration_label, timer_active, timer_left>>

on_url_changed(url) ==
    IF url # current_url
    THEN /\ current_url' = url
         /\ reset_video_info
         /\ IF Strip(url) # <<>>
            THEN timer_active' = TRUE /\ timer_left' = Delay
            ELSE UNCHANGED <<timer_active, timer_left>>
    ELSE UNCHANGED <<current_url, video_info, duration_label, timer_active, timer_left>>

\* fetch_video_info, for the fetch button and for the timer alike
fetch_video_info ==
    LET url == Strip(url_text)
    IN  IF url = <<>>
        THEN UNCHANGED <<status_label, fetch_info_btn, info_thread, inf, inf_created>>
        ELSE /\ inf_created < MaxInfo
             /\ status_label' = Label("Fetching video information...")
             /\ fetch_info_btn' = FALSE
             /\ inf_created' = inf_created + 1
             /\ info_thread' = inf_created + 1
             /\ inf' = [inf EXCEPT ![inf_created + 1] = [st |-> "running", url |-> url, err |-> None]]

\* a reset that leaves the progress bar on the screen
reset_download_ui_keeps_bar ==
    /\ download_button' = TRUE
    /\ cancel_button' = FALSE
    /\ progress_value' = 0
    /\ UNCHANGED progress_bar

reset_download_ui ==
    /\ download_button' = TRUE
    /\ cancel_button' = FALSE
    /\ progress_bar' = FALSE
    /\ progress_value' = 0

start_download ==
    LET url == Strip(url_text)
    IN  IF url = <<>>
        THEN /\ modal' = <<"warning">> \o modal
             /\ UNCHANGED <<download_button, cancel_button, progress_bar,
                            progress_value, status_label, download_thread,
                            dl, dl_created>>
        ELSE IF selected_path = "" \/ ~PathExists(selected_path)
        THEN /\ modal' = <<"warning">> \o modal
             /\ UNCHANGED <<download_button, cancel_button, progress_bar,
                            progress_value, status_label, download_thread,
                            dl, dl_created>>
        ELSE /\ dl_created < MaxDl
             /\ download_button' = FALSE
             /\ cancel_button' = TRUE
             /\ progress_bar' = TRUE
             /\ progress_value' = 0
             /\ status_label' = Label("Preparing download...")
             /\ dl_created' = dl_created + 1
             /\ download_thread' = dl_created + 1
             /\ dl' = [dl EXCEPT ![dl_created + 1] =
                          [NoThread EXCEPT !.st = "running", !.pc = "begin"]]
             /\ UNCHANGED modal

\* DownloadThread.cancel
cancel(t) ==
    dl' = [dl EXCEPT ![t].is_cancelled = TRUE, ![t].terminating = TRUE]

cancel_download ==
    /\ IF download_thread # 0 /\ isRunning(download_thread)
       THEN /\ cancel(download_thread)
            /\ status_label' = Label("Download cancelled")
            /\ delivered' = [delivered EXCEPT ![download_thread] =
                                Append(@, Signal("cancelled", Label("Download cancelled by user")))]
       ELSE UNCHANGED <<dl, status_label, delivered>>
    /\ reset_download_ui

(***************************************************************************)
(* The workers.  A signal emitted on a worker thread is posted to the UI   *)
(* thread's event loop (queued connection) and runs its slot there later.  *)
(***************************************************************************)
Posted(kind, t, signals) ==
    [i \in 1..Len(signals) |->
        [kind |-> kind, tid |-> t, sig |-> signals[i].sig,
         arg |-> signals[i].arg, info |-> EmptyInfo]]

\* DownloadThread t emits signals, in order
Emit(t, signals) ==
    /\ uiq' = uiq \o Posted("download", t, signals)
    /\ produced' = [produced EXCEPT ![t] = @ \o signals]

RunLogs ==
    << Signal("log_signal", Label("Starting download from")),
       Signal("log_signal", Label("Format")),
       Signal("log_signal", Label("Output path")) >>

\* run(): the three log lines before the resolver is called
DlBegin(t) ==
    /\ isRunning(t) /\ dl[t].pc = "begin"
    /\ Emit(t, RunLogs)
    /\ dl' = [dl EXCEPT ![t].pc = "download"]
    /\ UNCHANGED <<ui_vars, fs, dl_created, inf, inf_created, delivered, info_delivered>>

\* the resolver calls hook(d); hook returns at once when is_cancelled is set
HookCall(t, d) ==
    /\ isRunning(t) /\ dl[t].pc = "download"
    /\ dl[t].hooks < MaxHooks
    /\ dl' = IF dl[t].is_cancelled
             THEN [dl EXCEPT ![t].hooks = @ + 1]
             ELSE [dl EXCEPT ![t].hooks = @ + 1, ![t].pc = "hook", ![t].cur = d]
    /\ UNCHANGED <<ui_vars, fs, dl_created, inf, inf_created, uiq, produced,
                   delivered, info_delivered>>

\* the rest of hook(d), past the is_cancelled test; an error raised in the
\* hook leaves ydl.download and reaches the except clauses of run()
HookBody(t) ==
    /\ isRunning(t) /\ dl[t].pc = "hook"
    /\ IF HookRaises(dl[t].cur) # None
       THEN /\ dl' = [dl EXCEPT ![t].pc = "except", ![t].err = "Exception"]
            /\ UNCHANGED <<uiq, produced>>
       ELSE /\ Emit(t, HookEmits(dl[t].cur))
            /\ dl' = [dl EXCEPT ![t].pc = "download"]
    /\ UNCHANGED <<ui_vars, fs, dl_created, inf, inf_created, delivered, info_delivered>>

\* ydl.download raises e
DlRaise(t, e) ==
    /\ isRunning(t) /\ dl[t].pc = "download"
    /\ dl' = [dl EXCEPT ![t].pc = "except", ![t].err = e]
    /\ UNCHANGED <<ui_vars, fs, dl_created, inf, inf_created, uiq, produced,
                   delivered, info_delivered>>

ErrorMsg(e) ==
    [Label("") EXCEPT !.msg = IF e = "DownloadError"
                               THEN <<"Download Error", e>>
                               ELSE <<"Unexpected Error", e>>]

\* except clauses that swallow the error: run() returns without a signal
DlExceptSilent(t) ==
    /\ isRunning(t) /\ dl[t].pc = "except"
    /\ dl' = [dl EXCEPT ![t].pc = "done", ![t].st = "done"]
    /\ UNCHANGED <<ui_vars, fs, dl_created, inf, inf_created, uiq, produced,
                   delivered, info_delivered>>

\* the except clauses of run(), after which run() returns
DlExcept(t) ==
    /\ isRunning(t) /\ dl[t].pc = "except"
    /\ Emit(t, << Signal("error_signal", ErrorMsg(dl[t].err)),
                  Signal("log_signal", ErrorMsg(dl[t].err)) >>)
    /\ dl' = [dl EXCEPT ![t].pc = "done", ![t].st = "done"]
    /\ UNCHANGED <<ui_vars, fs, dl_created, inf, inf_created, delivered, info_delivered>>

\* ydl.download returns and run() with it
DlReturn(t) ==
    /\ isRunning(t) /\ dl[t].pc = "download"
    /\ dl' = [dl EXCEPT ![t].pc = "done", ![t].st = "done"]
    /\ UNCHANGED <<ui_vars, fs, dl_created, inf, inf_created, uiq, produced,
                   delivered, info_delivered>>

\* terminate() takes effect: the thread stops wherever it is
DlTerminated(t) ==
    /\ isRunning(t) /\ dl[t].terminating
    /\ dl' = [dl EXCEPT ![t].pc = "terminated", ![t].st = "done",
                        ![t].cur = NoCallback]
    /\ UNCHANGED <<ui_vars, fs, dl_created, inf, inf_created, uiq, produced,
                   delivered, info_delivered>>

\* VideoInfoThread.run: extract_info returns and info_signal is emitted
InfoReturn(t, duration) ==
    /\ infoRunning(t)
    /\ inf' = [inf EXCEPT ![t].st = "done"]
    /\ uiq' = Append(uiq, [kind |-> "info", tid |-> t, sig |-> "info_signal",
                           arg |-> Label(""),
                           info |-> [fetched |-> TRUE, url |-> inf[t].url,
                                     duration |-> duration]])
    /\ UNCHANGED <<ui_vars, fs, dl, dl_created, inf_created, produced, delivered,
                   info_delivered>>

\* VideoInfoThread.run: extract_info raises e and error_signal is emitted
InfoRaise(t, e) ==
    /\ infoRunning(t)
    /\ inf' = [inf EXCEPT ![t].st = "done", ![t].err = e]
    /\ uiq' = Append(uiq, [kind |-> "info", tid |-> t, sig |-> "error_signal",
                           arg |-> [Label("") EXCEPT !.msg = <<e>>],
                           info |-> EmptyInfo])
    /\ UNCHANGED <<ui_vars, fs, dl, dl_created, inf_created, produced, delivered,
                   info_delivered>>

(***************************************************************************)
(* The UI thread's event loop.                                             *)
(***************************************************************************)
on_info_received(info) ==
    /\ video_info' = info
    /\ duration_label' = IF info.duration # 0
                         THEN DurationStr(info.duration)
                         ELSE duration_label
    /\ fetch_info_btn' = TRUE
    /\ status_label' = Label("Video information loaded successfully!")

on_info_error(error) ==
    /\ fetch_info_btn' = TRUE
    /\ status_label' = [Label("Error fetching video info") EXCEPT !.msg = error.msg]
    /\ UNCHANGED <<video_info, duration_label>>

\* on_download_finished up to its message box
on_download_finished(output_path) ==
    /\ status_label' = Label("Download completed! File saved to")
    /\ modal' = <<"finished">> \o modal
    /\ UNCHANGED progress_value

\* on_download_error up to its message box
on_download_error(error) ==
    /\ status_label' = [Label("Download failed") EXCEPT !.msg = error.msg]
    /\ modal' = <<"error">> \o modal
    /\ UNCHANGED progress_value

\* the event loop takes the oldest posted event and runs the connected slot
Deliver ==
    /\ uiq # <<>>
    /\ LET e == Head(uiq)
       IN  /\ uiq' = Tail(uiq)
           /\ IF e.kind = "download"
              THEN /\ delivered' = [delivered EXCEPT ![e.tid] =
                                       Append(@, Signal(e.sig, e.arg))]
                   /\ CASE e.sig = "progress_signal" ->
                               /\ progress_value' = e.arg.n
                               /\ UNCHANGED <<status_label, modal>>
                        [] e.sig = "status_signal" ->
                               /\ status_label' = e.arg
                               /\ UNCHANGED <<progress_value, modal>>
                        [] e.sig = "finished_signal" -> on_download_finished(e.arg)
                        [] e.sig = "error_signal" -> on_download_error(e.arg)
                        [] OTHER -> UNCHANGED <<progress_value, status_label, modal>>
                   /\ UNCHANGED <<video_info, duration_label, fetch_info_btn, info_delivered>>
              ELSE /\ info_delivered' = [info_delivered EXCEPT ![e.tid] =
                                            Append(@, Signal(e.sig, e.arg))]
                   /\ IF e.sig = "info_signal"
                      THEN on_info_received(e.info)
                      ELSE on_info_error(e.arg)
                   /\ UNCHANGED <<progress_value, modal, delivered>>
    /\ UNCHANGED <<url_text, current_url, selected_path, fs, download_button,
                   cancel_button, progress_bar, timer_active, timer_left, idle, download_thread,
                   info_thread, dl, dl_created, inf, inf_created, produced>>

\* the user closes the innermost message box; the slot that opened it goes on
DismissDialog ==
    /\ modal # <<>>
    /\ modal' = Tail(modal)
    /\ IF Head(modal) \in {"finished", "error"}
       THEN reset_download_ui
       ELSE UNCHANGED <<download_button, cancel_button, progress_bar, progress_value>>
    /\ UNCHANGED <<url_text, current_url, selected_path, fs, status_label,
                   fetch_info_btn, timer_active, timer_left, idle, video_info, duration_label, download_thread,
                   info_thread, dl, dl_created, inf, inf_created, uiq, produced,
                   delivered, info_delivered>>

\* one tick of time passes
Tick ==
    /\ (timer_active /\ timer_left > 0) \/ idle < Delay
    /\ timer_left' = IF timer_active /\ timer_left > 0 THEN timer_left - 1 ELSE timer_left
    /\ idle' = IF idle < Delay THEN idle + 1 ELSE idle
    /\ UNCHANGED <<url_text, current_url, selected_path, fs, download_button,
                   cancel_button, progress_bar, progress_value, status_label,
                   fetch_info_btn, timer_active, video_info, duration_label,
                   download_thread, info_thread, dl, dl_created, inf,
                   inf_created, uiq, modal, produced, delivered, info_delivered>>

\* thumbnail_timer.timeout, once the timer is due
TimerFires ==
    /\ timer_active /\ timer_left = 0
    /\ timer_active' = FALSE
    /\ UNCHANGED timer_left
    /\ fetch_video_info
    /\ UNCHANGED <<url_text, current_url, selected_path, fs, download_button,
                   cancel_button, progress_bar, progress_value, video_info, duration_label, idle,
                   download_thread, dl, dl_created, uiq, modal, produced,
                   delivered, info_delivered>>

(***************************************************************************)
(* The user.  A message box is application-modal: while one is open the    *)
(* window takes no input.  A hidden or disabled button cannot be clicked.  *)
(***************************************************************************)
EditUrl(text) ==
    /\ modal = <<>>
    /\ text # url_text
    /\ url_text' = text
    /\ idle' = 0
    /\ on_url_changed(text)
    /\ UNCHANGED <<selected_path, fs, download_button, cancel_button,
                   progress_bar, progress_value, status_label, fetch_info_btn,
                   download_thread, info_thread, dl, dl_created, inf,
                   inf_created, uiq, modal, produced, delivered, info_delivered>>

ClickFetch ==
    /\ modal = <<>>
    /\ fetch_info_btn
    /\ fetch_video_info
    /\ UNCHANGED <<url_text, current_url, selected_path, fs, download_button,
                   cancel_button, progress_bar, progress_value, timer_active, timer_left, idle,
                   video_info, duration_label, download_thread, dl, dl_created, uiq, modal,
                   produced, delivered, info_delivered>>

ClickStart ==
    /\ modal = <<>>
    /\ download_button
    /\ start_download
    /\ UNCHANGED <<url_text, current_url, selected_path, fs, fetch_info_btn,
                   timer_active, timer_left, idle, video_info, duration_label, info_thread, inf, inf_created,
                   uiq, produced, delivered, info_delivered>>

ClickCancel ==
    /\ modal = <<>>
    /\ cancel_button
    /\ cancel_download
    /\ UNCHANGED <<url_text, current_url, selected_path, fs, fetch_info_btn,
                   timer_active, timer_left, idle, video_info, duration_label, download_thread, info_thread,
                   dl_created, inf, inf_created, uiq, modal, produced,
                   info_delivered>>

\* select_path, with a directory picked in the file dialog
SelectPath(path) ==
    /\ modal = <<>>
    /\ PathExists(path)
    /\ selected_path' = path
    /\ UNCHANGED <<url_text, current_url, fs, download_button, cancel_button,
                   progress_bar, progress_value, status_label, fetch_info_btn,
                   timer_active, timer_left, idle, video_info, duration_label, download_thread, info_thread, dl,
                   dl_created, inf, inf_created, uiq, modal, produced,
                   delivered, info_delivered>>

Next ==
    \/ \E text \in Texts : EditUrl(text)
    \/ ClickFetch
    \/ ClickStart
    \/ ClickCancel
    \/ \E path \in Paths : SelectPath(path)
    \/ DismissDialog
    \/ Tick
    \/ TimerFires
    \/ Deliver
    \/ \E t \in DlIds : DlBegin(t)
    \/ \E t \in DlIds, d \in HookInputs : HookCall(t, d)
    \/ \E t \in DlIds : HookBody(t)
    \/ \E t \in DlIds, e \in ResolverErrors : DlRaise(t, e)
    \/ \E t \in DlIds : DlExcept(t)
    \/ \E t \in DlIds : DlReturn(t)
    \/ \E t \in DlIds : DlTerminated(t)
    \/ \E t \in InfoIds, duration \in Durations : InfoReturn(t, duration)
    \/ \E t \in InfoIds, e \in ResolverErrors : InfoRaise(t, e)

Spec == Init /\ [][Next]_vars

(***************************************************************************)
(* Parts of the behaviour, each small enough to explore in full.  Each     *)
(* takes the runs of Spec in which some things do not happen and the       *)
(* number of workers stays within a bound of its own.                      *)
(***************************************************************************)
MaxStartDl == 1   \* downloads started in one run of SpecStart
MaxErrorDl == 1   \* downloads started in one run of SpecError
MaxErrorInfo == 1 \* metadata fetches started in one run of SpecError
MaxBytes == 50    \* the largest total_bytes of a callback in SpecHook
MaxButtonsDl == 1 \* downloads started in one run of SpecButtons
MaxStrLen == 3    \* the longest '_percent_str' enumerated in SpecNormalize

\* the download directory exists when the window opens
InitReady == Init /\ HomeDownloads \in fs

\* a DownloadThread whose resolver makes no progress callbacks
QuietWorker(t) ==
    \/ DlBegin(t)
    \/ \E e \in ResolverErrors : DlRaise(t, e)
    \/ DlExcept(t)
    \/ DlReturn(t)
    \/ DlTerminated(t)

Worker(t) ==
    \/ QuietWorker(t)
    \/ \E d \in HookInputs : HookCall(t, d)
    \/ HookBody(t)

\* a VideoInfoThread whose resolver returns a dict without a duration
InfoWorker(t) ==
    \/ InfoReturn(t, 0)
    \/ \E e \in ResolverErrors : InfoRaise(t, e)

\* The metadata slot alone: the runs without a download.
InfoNext ==
    \/ \E text \in Texts : EditUrl(text)
    \/ Tick
    \/ TimerFires
    \/ ClickFetch
    \/ Deliver
    \/ \E t \in InfoIds : InfoWorker(t)

SpecInfo == InitReady /\ [][InfoNext]_vars

\* The download slot alone, with resolvers that make no progress callbacks.
DownloadNext ==
    \/ EditUrl(<<"a">>)
    \/ ClickStart
    \/ ClickCancel
    \/ DismissDialog
    \/ Deliver
    \/ \E t \in DlIds : QuietWorker(t)

SpecDownload == InitReady /\ [][DownloadNext]_vars

\* One download task from its start to its end.
TaskNext ==
    \/ EditUrl(<<"a">>)
    \/ ClickStart /\ dl_created' <= 1
    \/ ClickCancel
    \/ DismissDialog
    \/ Deliver
    \/ \E t \in DlIds : Worker(t)

SpecTask == InitReady /\ [][TaskNext]_vars

\* What the user can do about a download, with every text and directory.
StartNext ==
    \/ \E text \in Texts : EditUrl(text)
    \/ \E path \in Paths : SelectPath(path)
    \/ ClickStart /\ dl_created' <= MaxStartDl
    \/ ClickCancel
    \/ DismissDialog
    \/ Deliver
    \/ \E t \in DlIds : QuietWorker(t)

SpecStart == Init /\ [][StartNext]_vars

\* Resolver errors in both kinds of worker; the user asks for video
\* information with the Fetch Info button, before the timer fires.
ErrorNext ==
    \/ EditUrl(<<"a">>)
    \/ ClickFetch /\ inf_created' <= MaxErrorInfo
    \/ ClickStart /\ dl_created' <= MaxErrorDl
    \/ ClickCancel
    \/ DismissDialog
    \/ Deliver
    \/ \E t \in DlIds : QuietWorker(t)
    \/ \E t \in InfoIds : InfoWorker(t)

SpecError == InitReady /\ [][ErrorNext]_vars

\* The 'downloading' callbacks with byte counts 0 <= downloaded <= total and
\* total > 0, one per run.
ByteInputs ==
    UNION { { Callback("downloading", total, downloaded, <<>>, FALSE) :
                downloaded \in 0..total } : total \in 1..MaxBytes }

HookNext ==
    \/ EditUrl(<<"a">>)
    \/ ClickStart /\ dl_created' <= 1
    \/ Deliver
    \/ \E t \in DlIds : DlBegin(t)
    \/ \E t \in DlIds, d \in ByteInputs : HookCall(t, d) /\ dl'[t].hooks <= 1
    \/ \E t \in DlIds : HookBody(t)

SpecHook == InitReady /\ [][HookNext]_vars

\* The 'downloading' callbacks with raw values: every text of up to MaxStrLen
\* characters as '_percent_str' (and three longer ones), byte counts out of
\* range, and speeds around the unit thresholds; one callback per run.
PercentChars == {"5", "a", "%", ".", " ", "-"}

PercentStrings ==
    UNION { [1..n -> PercentChars] : n \in 0..MaxStrLen }
        \cup { <<"1", "5", "0", "%">>, <<"n", "a", "n", "%">>, <<"i", "n", "f", "%">> }

Speeds == {1, KB - 1, KB, KB + 1, KB * KB - 1, KB * KB, KB * KB + 1}

RawInputs ==
    { Callback("downloading", 0, 0, <<p>>, FALSE) : p \in PercentStrings }
        \cup { Callback("downloading", 0 - 2, 1, <<p>>, FALSE) :
                   p \in {<<"a", "%">>, <<"5", "%">>} }
        \cup { Callback("downloading", 2, downloaded, <<>>, FALSE) :
                   downloaded \in {0 - 1, 1, 3} }
        \cup { [Callback("downloading", 2, 1, <<>>, FALSE) EXCEPT !.speed = <<v>>] :
                   v \in Speeds }

NormalizeNext ==
    \/ EditUrl(<<"a">>)
    \/ ClickStart /\ dl_created' <= 1
    \/ DismissDialog
    \/ Deliver
    \/ \E t \in DlIds : DlBegin(t)
    \/ \E t \in DlIds, d \in RawInputs : HookCall(t, d) /\ dl'[t].hooks <= 1
    \/ \E t \in DlIds : HookBody(t)
    \/ \E t \in DlIds : DlExcept(t)

SpecNormalize == InitReady /\ [][NormalizeNext]_vars

\* One metadata fetch, asked for with the button, with every duration.
MetadataNext ==
    \/ EditUrl(<<"a">>)
    \/ ClickFetch /\ inf_created' <= 1
    \/ Deliver
    \/ \E t \in InfoIds, duration \in Durations : InfoReturn(t, duration)
    \/ \E t \in InfoIds, e \in ResolverErrors : InfoRaise(t, e)

SpecMetadata == InitReady /\ [][MetadataNext]_vars

\* Downloads one after another, each with at most one 'finished' callback.
ButtonsNext ==
    \/ EditUrl(<<"a">>)
    \/ ClickStart /\ dl_created' <= MaxButtonsDl
    \/ ClickCancel
    \/ DismissDialog
    \/ Deliver
    \/ \E t \in DlIds : QuietWorker(t)
    \/ \E t \in DlIds :
           HookCall(t, Callback("finished", 0, 0, <<>>, TRUE)) /\ dl'[t].hooks <= 1
    \/ \E t \in DlIds : HookBody(t)

SpecButtons == InitReady /\ [][ButtonsNext]_vars

\* The URL field and the timer, with time: no Fetch Info clicks.
DebounceNext ==
    \/ \E text \in Texts : EditUrl(text)
    \/ Tick
    \/ TimerFires
    \/ Deliver
    \/ \E t \in InfoIds : InfoWorker(t)

SpecDebounce == InitReady /\ [][DebounceNext]_vars

(***************************************************************************)
(* Properties.                                                             *)
(***************************************************************************)
RunningDownloads == {t \in DlIds : isRunning(t)}
RunningInfos == {t \in InfoIds : infoRunning(t)}

\* an event of download thread t waits in the event loop
Pending(t) == \E i \in 1..Len(uiq) : uiq[i].kind = "download" /\ uiq[i].tid = t
PendingInfo(t) == \E i \in 1..Len(uiq) : uiq[i].kind = "info" /\ uiq[i].tid = t

\* the places of a history where a signal of the set sigs stands
Places(history, sigs) == {i \in 1..Len(history) : history[i].sig \in sigs}

TerminalEvents == {"finished_signal", "error_signal", "cancelled"}
TaskEvents == {"progress_signal", "status_signal", "finished_signal", "error_signal"}

IsPrefix(a, b) == Len(a) <= Len(b) /\ SubSeq(b, 1, Len(a)) = a
IsBlank(text) == \A i \in 1..Len(text) : text[i] = " "
NotCancelled(e) == e.sig # "cancelled"

\* C1: at most one DownloadThread and at most one VideoInfoThread is running
\* at any time.
C1_OneWorkerPerSlot ==
    /\ Cardinality(RunningDownloads) <= 1
    /\ Cardinality(RunningInfos) <= 1

\* C2: a start_download while an earlier download worker is still running
\* creates no DownloadThread and leaves the first task's thread reference,
\* progress value and status as they were.
C2_SecondStartRejected ==
    [][ (ClickStart /\ RunningDownloads # {})
            => /\ dl_created' = dl_created
               /\ dl' = dl
               /\ download_thread' = download_thread
               /\ progress_value' = progress_value
               /\ status_label' = status_label ]_vars

\* C3: fetch_video_info, from the button or from the timer, starts no
\* VideoInfoThread when the trimmed URL is empty or a metadata worker is
\* running, and exactly one otherwise.
C3_FetchRejectsWhenBusy ==
    [][ (ClickFetch \/ TimerFires)
            => IF IsBlank(url_text) \/ RunningInfos # {}
               THEN inf_created' = inf_created /\ inf' = inf
               ELSE inf_created' = inf_created + 1 ]_vars

\* C4: once cancel_download has cancelled a running download, no progress,
\* status, finished or error event of that task reaches the UI any more, and
\* the task is reported cancelled once.
C4_NothingAfterCancel ==
    \A t \in DlIds :
        /\ Cardinality(Places(delivered[t], {"cancelled"})) <= 1
        /\ \A i \in Places(delivered[t], {"cancelled"}) :
               \A j \in Places(delivered[t], TaskEvents) : j < i

\* C5: a download worker that has ended, with all its events handled and no
\* message box left open, has produced a terminal outcome and the UI is idle
\* again (Start Download shown, Cancel and the progress bar hidden).
C5_EveryWorkerEndsTheTask ==
    \A t \in DlIds :
        (dl[t].st = "done" /\ ~Pending(t) /\ modal = <<>> /\ download_thread = t)
            => /\ Places(delivered[t], TerminalEvents) # {}
               /\ download_button /\ ~cancel_button /\ ~progress_bar

\* C6: the events of a download task reach the UI in the order the worker
\* produced them, and none follows the task's terminal event.
C6_TerminalEventIsLast ==
    \A t \in DlIds :
        /\ IsPrefix(SelectSeq(delivered[t], NotCancelled), produced[t])
        /\ \A i \in Places(delivered[t], TerminalEvents) : i = Len(delivered[t])

\* C7: a download task reaches at most one of Completed, Failed, Cancelled,
\* and reaches it once.
C7_OneTerminalState ==
    \A t \in DlIds : Cardinality(Places(delivered[t], TerminalEvents)) <= 1

\* a start_download that has to be refused: blank URL or no such directory
InvalidStart ==
    ClickStart /\ (IsBlank(url_text) \/ selected_path = "" \/ selected_path \notin fs)

\* C8: start_download with an empty or whitespace-only URL, or with a
\* download directory that is empty or does not exist, creates no
\* DownloadThread and leaves the buttons, the progress bar, the status label
\* and the download_thread reference unchanged.
C8_InvalidStartRejected ==
    [][ InvalidStart
            => /\ dl_created' = dl_created
               /\ dl' = dl
               /\ download_state' = download_state ]_vars

\* C8 happens: after an earlier download, a whitespace-only URL was refused
\* and its warning is on the screen.
C8_Witness ==
    /\ modal # <<>> /\ Head(modal) = "warning"
    /\ url_text = <<" ">>
    /\ dl_created = 1

\* download thread t caught a resolver error, has ended, and the event loop
\* holds nothing of it any more
DownloadFailed(t) == dl[t].err # None /\ dl[t].st = "done" /\ ~Pending(t)
InfoFailed(t) == inf[t].err # None /\ inf[t].st = "done" /\ ~PendingInfo(t)

\* the UI was told of the error of download thread t, once, with its message
ErrorSurfaced(t) ==
    \E i \in 1..Len(delivered[t]) :
        /\ Places(delivered[t], {"error_signal"}) = {i}
        /\ delivered[t][i].arg.msg[2] = dl[t].err
InfoErrorSurfaced(t) ==
    \E i \in 1..Len(info_delivered[t]) :
        /\ Places(info_delivered[t], {"error_signal"}) = {i}
        /\ info_delivered[t][i].arg.msg = <<inf[t].err>>

\* C9 as stated: every error the resolver raises in a worker reaches the UI
\* as one Failed event with the error's message.
C9_EveryErrorSurfaces ==
    /\ \A t \in DlIds : DownloadFailed(t) => ErrorSurfaced(t)
    /\ \A t \in InfoIds : InfoFailed(t) => InfoErrorSurfaced(t)

\* C9, amended: every error the resolver raises in a worker that the user has
\* not cancelled reaches the UI as one Failed event with the error's message,
\* no worker ever reports two, and handling an event starts no worker.
C9_UncancelledErrorSurfaces ==
    /\ [](/\ \A t \in DlIds :
                /\ (DownloadFailed(t) /\ ~dl[t].is_cancelled) => ErrorSurfaced(t)
                /\ Cardinality(Places(delivered[t], {"error_signal"})) <= 1
          /\ \A t \in InfoIds :
                /\ InfoFailed(t) => InfoErrorSurfaced(t)
                /\ Cardinality(Places(info_delivered[t], {"error_signal"})) <= 1)
    /\ [][ (Deliver \/ DismissDialog)
               => (dl_created' = dl_created /\ inf_created' = inf_created) ]_vars

\* C9 happens: a download that was never cancelled failed and the UI has
\* shown its error.
C9_Witness ==
    \E t \in DlIds :
        /\ DownloadFailed(t) /\ ~dl[t].is_cancelled
        /\ ErrorSurfaced(t)
        /\ modal = <<>>

\* C10: for a 'downloading' callback with 0 <= downloaded <= total and
\* total > 0, the percent emitted on progress_signal is
\* floor(downloaded * 100 / total) and lies in 0..100.
C10_PercentIsFloor ==
    [][ \A t \in DlIds :
          (/\ HookBody(t)
           /\ dl[t].cur.status = "downloading"
           /\ dl[t].cur.total_bytes > 0
           /\ dl[t].cur.downloaded_bytes >= 0
           /\ dl[t].cur.downloaded_bytes <= dl[t].cur.total_bytes)
            => LET e == produced'[t][Len(produced[t]) + 1]
               IN  /\ e.sig = "progress_signal"
                   /\ e.arg.n = (dl[t].cur.downloaded_bytes * 100)
                                    \div dl[t].cur.total_bytes
                   /\ e.arg.n \in 0..100 ]_vars

\* the event HookBody adds first to what thread t has produced
FirstEmitted(t) == produced'[t][Len(produced[t]) + 1]
Emitted(t, k) == produced'[t][Len(produced[t]) + k]

\* C11: every percent emitted on progress_signal lies in 0..100, whatever the
\* callback carried.
C11_PercentClamped ==
    \A t \in DlIds :
        \A i \in Places(produced[t], {"progress_signal"}) :
            produced[t][i].arg.n \in 0..100

\* a 'downloading' callback without a usable total byte count whose percent
\* string, stripped and without '%', is no number for float()
MalformedPercent(d) ==
    /\ d.status = "downloading"
    /\ d.total_bytes <= 0
    /\ d.percent_str # <<>>
    /\ ~FloatOfStr(Remove(Strip(d.percent_str[1]), "%")).ok

\* C12: a 'downloading' callback with no usable total byte count and a
\* percent string that is no number emits percent 0, raises nothing, and
\* leaves the download running.
C12_MalformedPercentIsZero ==
    [][ \A t \in DlIds :
          (HookBody(t) /\ MalformedPercent(dl[t].cur))
            => /\ Len(produced'[t]) > Len(produced[t])
               /\ FirstEmitted(t) = Signal("progress_signal", Payload(0, ""))
               /\ dl'[t].pc = "download"
               /\ dl'[t].st = "running"
               /\ dl'[t].err = None ]_vars

\* C12 happens: the hook has handled the percent string 'a%' as 0 and the
\* download goes on.
C12_Witness ==
    \E t \in DlIds :
        /\ dl[t].cur.percent_str = << <<"a", "%">> >>
        /\ dl[t].cur.total_bytes = 0
        /\ dl[t].pc = "download" /\ dl[t].st = "running"
        /\ \E i \in Places(produced[t], {"progress_signal"}) : produced[t][i].arg.n = 0

\* the largest unit in which a speed of at least 1 B/s is at least 1
LargestUnit(speed) ==
    IF speed >= KB * KB THEN "MB/s"
    ELSE IF speed >= KB THEN "KB/s"
    ELSE "B/s"

\* C14: the status text shows a speed in the largest of B/s, KB/s, MB/s in
\* which its value is at least 1, so 1024 B/s in KB/s and 1024 * 1024 B/s in
\* MB/s.
C14_LargestSpeedUnit ==
    [][ \A t \in DlIds :
          (/\ HookBody(t)
           /\ dl[t].cur.status = "downloading"
           /\ dl[t].cur.speed # <<>>
           /\ HookRaises(dl[t].cur) = None)
            => /\ Emitted(t, 2).sig = "status_signal"
               /\ Emitted(t, 2).arg.speed = <<LargestUnit(dl[t].cur.speed[1])>> ]_vars

\* C13: a 'finished' callback emits percent 100 and the completed status,
\* whatever was emitted before it.
C13_FinishedIsHundred ==
    [][ \A t \in DlIds :
          (HookBody(t) /\ dl[t].cur.status = "finished")
            => /\ Len(produced'[t]) >= Len(produced[t]) + 2
               /\ Emitted(t, 1) = Signal("progress_signal", Payload(100, ""))
               /\ Emitted(t, 2) = Signal("status_signal", Label("Download completed!")) ]_vars

\* C13 happens: a percent below 100 was emitted, and after it the 100 and
\* the completed status of a 'finished' callback.
C13_Witness ==
    \E t \in DlIds :
        \E i, j \in Places(produced[t], {"progress_signal"}) :
            /\ i < j
            /\ produced[t][i].arg.n < 100
            /\ produced[t][j].arg.n = 100
            /\ j < Len(produced[t])
            /\ produced[t][j + 1] = Signal("status_signal", Label("Download completed!"))

\* n < 100 as two decimal digits
TwoDigits(n) == <<Digits[(n \div 10) + 1], Digits[(n % 10) + 1]>>

\* the event loop hands a VideoInfoThread's info_signal to on_info_received
DeliversInfo ==
    /\ Deliver
    /\ Head(uiq).kind = "info"
    /\ Head(uiq).sig = "info_signal"

\* C15: the metadata the resolver returned is stored in video_info as it is,
\* and a duration d with 0 < d < 3600 is shown as MM:SS, MM = d div 60 and
\* SS = d mod 60, two digits each.
C15_MetadataStoredAndFormatted ==
    [][ DeliversInfo
          => LET M == Head(uiq).info
             IN  /\ video_info' = M
                 /\ (0 < M.duration /\ M.duration < 3600)
                       => duration_label' = TwoDigits(M.duration \div 60)
                                                \o <<":">> \o TwoDigits(M.duration % 60) ]_vars

\* C15 happens: a fetch ended with a duration of 125 seconds, shown as 02:05.
C15_Witness ==
    /\ video_info.fetched
    /\ video_info.duration = 125
    /\ duration_label = <<"0", "2", ":", "0", "5">>
    /\ \E t \in InfoIds : inf[t].st = "done" /\ ~PendingInfo(t)

\* C16: a video_info that is held was fetched for the URL now in the input
\* field.
C16_InfoIsOfCurrentUrl ==
    video_info.fetched => video_info.url = Strip(url_text)

\* C17: exactly one of the Start Download and Cancel buttons is visible, and
\* the progress bar is visible exactly when the Cancel button is.
C17_ButtonsExclusive ==
    /\ download_button # cancel_button
    /\ progress_bar = cancel_button

\* C17 happens: a download was started and cancelled, its worker went on to
\* report a finished file, and the message box of that report was closed.
C17_Witness ==
    /\ dl_created = 1
    /\ Places(delivered[1], {"cancelled"}) # {}
    /\ Places(delivered[1], {"finished_signal"}) # {}
    /\ modal = <<>>
    /\ download_button /\ ~progress_bar

\* C18: a change of the URL text to a non-blank value (re)starts the timer
\* with the full delay; the timer is single-shot; a fetch the timer starts
\* begins only when the text has been unchanged for the full delay and is
\* for the text of that moment; with a blank text the timer starts none.
C18_Debounced ==
    /\ [][ (url_text' # url_text /\ ~IsBlank(url_text'))
               => (timer_active' /\ timer_left' = Delay) ]_vars
    /\ [][ TimerFires
               => /\ ~timer_active'
                  /\ IF IsBlank(url_text)
                     THEN inf_created' = inf_created /\ inf' = inf
                     ELSE /\ idle = Delay
                          /\ inf_created' = inf_created + 1
                          /\ inf'[inf_created + 1].url = Strip(url_text) ]_vars

\* C18 happens: the text 'b' stayed for the full delay, the timer started
\* the one fetch, for 'b', and that fetch is running.
C18_Witness ==
    /\ url_text = <<"b">>
    /\ idle = Delay
    /\ ~timer_active
    /\ inf_created = 1
    /\ inf[1].url = <<"b">>
    /\ \E t \in InfoIds : info_delivered[t] = <<>> /\ infoRunning(t)

====
